---- MODULE Spec2Model ----
(***************************************************************************)
(* TaskTrackr (src/tasktrackr.py): the task store, its persisted file and  *)
(* the background reminder checker, as a state machine.                    *)
(*                                                                         *)
(* Representation.                                                         *)
(*   - an optional datetime is a sequence: <<>> is None, <<n>> is the      *)
(*     instant n of the model clock;                                       *)
(*   - a JSON value is a record [t, s, n]: t is its JSON type, s the text  *)
(*     of a string, n the number / boolean / instant it carries.  The      *)
(*     string that datetime.isoformat() writes for instant n is            *)
(*     [t |-> "str", s |-> "iso", n |-> n];                                *)
(*   - a record of the file is [obj, keys, val]: whether it is a JSON      *)
(*     object, the keys it holds, and the value under each key;            *)
(*   - the file is [kind, recs]: absent, undecodable bytes, invalid JSON,  *)
(*     a JSON scalar, or a JSON array of records.                          *)
(***************************************************************************)
EXTENDS Integers, Sequences, FiniteSets, TLC

VARIABLES
    phase,      \* "off": no process; "up": main loop; "stopping": stop() returned
    tasks,      \* TaskManager.tasks
    file,       \* the content of tasks.json
    running,    \* TaskManager._running
    clock,      \* datetime.now()
    failures,   \* writes of the file that have failed so far
    lastOp,     \* the last call of the foreground thread
    lastIdx,    \* its index argument
    ret,        \* what it returned
    lastWrite,  \* the outcome of the write it made, "none" if it made none
    streak,     \* successive in-range toggles of lastIdx: 0, 1, or 2 and
                \* more; 3 when one of them did not return True
    snapTasks,  \* tasks before the last of them, or before the load
    snapFile,   \* file before the last of them, or before the load
    snap2Tasks, \* tasks before the last two of them
    snap2File,  \* file before the last two of them
    pollerPc,   \* where run_reminder_checker stands
    scanIdx,    \* the position of the list iterator of check_reminders
    pollNow,    \* the now of the poll in progress
    printed,    \* the task whose reminder the last visit of the scan printed:
                \* <<t>>, or <<>> when it printed none
    owed        \* the tasks in the store, due and unchanged since the poll
                \* began, whose reminder the poll has not printed

vars == <<phase, tasks, file, running, clock, failures, lastOp, lastIdx, ret,
          lastWrite, streak, snapTasks, snapFile, snap2Tasks, snap2File,
          pollerPc, scanIdx, pollNow, printed, owed>>

callVars == <<lastOp, lastIdx, ret, lastWrite, streak, snapTasks, snapFile,
              snap2Tasks, snap2File>>

pollerVars == <<pollerPc, scanIdx, pollNow, printed, owed>>

----------------------------------------------------------------------------
(* Bounds of the model.                                                    *)

\* the store holds at most MaxTasks tasks
MaxTasks == 2

\* the clock runs over 0 .. MaxTime
MaxTime == 1

\* at most MaxWriteFailures writes of the file fail in one behaviour
MaxWriteFailures == 1

----------------------------------------------------------------------------
(* JSON values.                                                            *)

Keys == {"title", "description", "due_date", "priority", "reminder",
         "reminder_time", "completed", "created_at"}

JNull == [t |-> "null", s |-> "", n |-> 0]

JBool(b) == [t |-> "bool", s |-> "", n |-> IF b THEN 1 ELSE 0]

JNum(k) == [t |-> "num", s |-> "", n |-> k]

JStr(x) == [t |-> "str", s |-> x, n |-> 0]

JList(k) == [t |-> "list", s |-> "", n |-> k]

\* Python truthiness of a JSON value: None, False, 0, "" and [] are falsy
Truthy(v) ==
    CASE v.t = "null" -> FALSE
      [] v.t = "bool" -> v.n = 1
      [] v.t = "num"  -> v.n # 0
      [] v.t = "str"  -> v.s # ""
      [] OTHER        -> v.n # 0

\* str.strip() on the strings of the model
Strip(x) ==
    CASE x = " c " -> "c"
      [] x = " d " -> "d"
      [] x = " "   -> ""
      [] OTHER     -> x

\* str.lower() on the strings of the model
Lower(x) ==
    CASE x = "HIGH" -> "high"
      [] x = "Low"  -> "low"
      [] OTHER      -> x

\* datetime.isoformat(): the string that encodes instant d
isoformat(d) == [t |-> "str", s |-> "iso", n |-> d]

\* datetime.fromisoformat(v): [st, d]; TypeError on a non-string, ValueError
\* on a string that is not an ISO-8601 timestamp
fromisoformat(v) ==
    IF v.t # "str" THEN [st |-> "TypeError", d |-> <<>>]
    ELSE IF v.s # "iso" THEN [st |-> "ValueError", d |-> <<>>]
    ELSE [st |-> "ok", d |-> <<v.n>>]

----------------------------------------------------------------------------
(* Task: lines 14-60.                                                      *)

NoTask ==
    [title |-> "", description |-> "", due_date |-> <<>>, priority |-> "",
     reminder |-> FALSE, reminder_time |-> <<>>, completed |-> JBool(FALSE),
     created_at |-> 0]

\* Task.__init__ on JSON-typed arguments (title, description, priority,
\* reminder) and Python datetimes (due_date, reminder_time), at instant now:
\* [st, task], st the exception raised or "ok"
TaskInit(title, description, due_date, priority, reminder, reminder_time, now) ==
    IF ~Truthy(title) THEN [st |-> "ValueError", task |-> NoTask]
    ELSE IF title.t # "str" THEN [st |-> "AttributeError", task |-> NoTask]
    ELSE IF Strip(title.s) = "" THEN [st |-> "ValueError", task |-> NoTask]
    ELSE IF description.t # "str" THEN [st |-> "AttributeError", task |-> NoTask]
    ELSE IF Truthy(priority) /\ priority.t # "str"
         THEN [st |-> "AttributeError", task |-> NoTask]
    ELSE LET p == IF Truthy(priority) THEN Lower(priority.s) ELSE "medium"
         IN [st |-> "ok",
             task |-> [title |-> Strip(title.s),
                       description |-> Strip(description.s),
                       due_date |-> due_date,
                       priority |-> IF p \in {"low", "medium", "high"}
                                    THEN p ELSE "medium",
                       reminder |-> Truthy(reminder),
                       reminder_time |-> reminder_time,
                       completed |-> JBool(FALSE),
                       created_at |-> now]]

\* Task.to_dict
to_dict(task) ==
    [obj |-> TRUE, keys |-> Keys,
     val |-> [k \in Keys |->
        CASE k = "title" -> JStr(task.title)
          [] k = "description" -> JStr(task.description)
          [] k = "due_date" -> IF task.due_date # <<>>
                               THEN isoformat(task.due_date[1]) ELSE JNull
          [] k = "priority" -> JStr(task.priority)
          [] k = "reminder" -> JBool(task.reminder)
          [] k = "reminder_time" -> IF task.reminder_time # <<>>
                                    THEN isoformat(task.reminder_time[1])
                                    ELSE JNull
          [] k = "completed" -> task.completed
          [] OTHER -> isoformat(task.created_at)]]

\* dict.get(key, default)
Get(data, k, default) == IF k \in data.keys THEN data.val[k] ELSE default

\* Task.from_dict: [st, task]; st = "ok", "None" (KeyError or ValueError
\* caught at line 58, None returned) or "raise" (any other exception
\* leaves from_dict)
from_dict(data, now) ==
    IF ~data.obj THEN [st |-> "raise", task |-> NoTask]
    ELSE IF "title" \notin data.keys THEN [st |-> "None", task |-> NoTask]
    ELSE
      LET c == TaskInit(data.val["title"], Get(data, "description", JStr("")),
                        <<>>, Get(data, "priority", JStr("medium")),
                        Get(data, "reminder", JBool(FALSE)), <<>>, now)
          dd == Get(data, "due_date", JNull)
          rt == Get(data, "reminder_time", JNull)
          due == IF Truthy(dd) THEN fromisoformat(dd) ELSE [st |-> "ok", d |-> <<>>]
          rem == IF Truthy(rt) THEN fromisoformat(rt) ELSE [st |-> "ok", d |-> <<>>]
      IN IF c.st = "ValueError" THEN [st |-> "None", task |-> NoTask]
         ELSE IF c.st # "ok" THEN [st |-> "raise", task |-> NoTask]
         ELSE IF due.st = "ValueError" THEN [st |-> "None", task |-> NoTask]
         ELSE IF due.st # "ok" THEN [st |-> "raise", task |-> NoTask]
         ELSE IF rem.st = "ValueError" THEN [st |-> "None", task |-> NoTask]
         ELSE IF rem.st # "ok" THEN [st |-> "raise", task |-> NoTask]
         ELSE IF "created_at" \notin data.keys THEN [st |-> "None", task |-> NoTask]
         ELSE LET ca == fromisoformat(data.val["created_at"])
              IN IF ca.st = "ValueError" THEN [st |-> "None", task |-> NoTask]
                 ELSE IF ca.st # "ok" THEN [st |-> "raise", task |-> NoTask]
                 ELSE [st |-> "ok",
                       task |-> [c.task EXCEPT
                                   !.due_date = due.d,
                                   !.reminder_time = rem.d,
                                   !.completed = Get(data, "completed", JBool(FALSE)),
                                   !.created_at = ca.d[1]]]

----------------------------------------------------------------------------
(* The persisted file and TaskManager's load and save: lines 62-91.        *)

AbsentFile == [kind |-> "absent", recs |-> <<>>]

ArrayFile(recs) == [kind |-> "array", recs |-> recs]

\* what remains of the file when a write fails after open(..., "w") has
\* truncated it: not JSON
TruncatedFile == [kind |-> "badjson", recs |-> <<>>]

Range(q) == {q[i] : i \in 1..Len(q)}

\* [task.to_dict() for task in self.tasks]
Serialize(ts) == [i \in 1..Len(ts) |-> to_dict(ts[i])]

\* the outcomes of one write of the file
WriteOutcomes ==
    {"ok"} \cup (IF failures < MaxWriteFailures THEN {"openfail", "partial"} ELSE {})

\* TaskManager.save_tasks: the file after the write with outcome w; every
\* exception is caught and printed (lines 90-91)
save_tasks(ts, f, w) ==
    CASE w = "ok"       -> ArrayFile(Serialize(ts))
      [] w = "openfail" -> f
      [] OTHER          -> TruncatedFile

\* the loop of lines 75-78 over the records from position i on, acc the
\* tasks appended so far: [st, tasks], st = "raise" when from_dict raised
RECURSIVE LoadRecords(_, _, _, _)
LoadRecords(recs, i, acc, now) ==
    IF i > Len(recs) THEN [st |-> "ok", tasks |-> acc]
    ELSE LET r == from_dict(recs[i], now)
         IN IF r.st = "raise" THEN [st |-> "raise", tasks |-> acc]
            ELSE LoadRecords(recs, i + 1,
                             IF r.st = "ok" THEN Append(acc, r.task) ELSE acc, now)

\* load_tasks without the save of line 81
load_tasks_keeping(ts, f, w, now) ==
    CASE f.kind = "absent"      -> [tasks |-> ts, file |-> f]
      [] f.kind = "badjson"     -> [tasks |-> ts, file |-> f]
      [] f.kind = "undecodable" -> [tasks |-> <<>>, file |-> f]
      [] f.kind = "scalar"      -> [tasks |-> <<>>, file |-> f]
      [] OTHER -> LET r == LoadRecords(f.recs, 1, <<>>, now)
                  IN [tasks |-> IF r.st = "ok" THEN r.tasks ELSE <<>>, file |-> f]

\* TaskManager.load_tasks: [tasks, file] after the load of file f into a
\* manager that holds ts, w the outcome of the write of line 81
load_tasks(ts, f, w, now) ==
    CASE f.kind = "absent"      -> [tasks |-> ts, file |-> f]
      [] f.kind = "badjson"     -> [tasks |-> ts, file |-> save_tasks(ts, f, w)]
      [] f.kind = "undecodable" -> [tasks |-> <<>>, file |-> f]
      [] f.kind = "scalar"      -> [tasks |-> <<>>, file |-> f]
      [] OTHER -> LET r == LoadRecords(f.recs, 1, <<>>, now)
                  IN [tasks |-> IF r.st = "ok" THEN r.tasks ELSE <<>>, file |-> f]

----------------------------------------------------------------------------
(* The inputs of the model.                                                *)

\* the arguments of Task(...): title, description, due_date, priority,
\* reminder, reminder_time; a task whose reminder falls at instant 1, and a
\* title of blanks, which Task.__init__ refuses
TaskArgs ==
    { <<JStr(" c "), JStr(" d "), <<1>>, JStr("HIGH"), JBool(TRUE), <<1>> >>,
      <<JStr(" "), JStr(""), <<>>, JStr("low"), JBool(FALSE), <<>> >> }

\* two tasks and the records that hold them in a file
Task1 ==
    [title |-> "a", description |-> "", due_date |-> <<>>,
     priority |-> "high", reminder |-> TRUE, reminder_time |-> <<0>>,
     completed |-> JBool(FALSE), created_at |-> 0]

Task2 ==
    [title |-> "b", description |-> "d", due_date |-> <<1>>,
     priority |-> "low", reminder |-> FALSE, reminder_time |-> <<>>,
     completed |-> JBool(TRUE), created_at |-> 0]

Valid1 == to_dict(Task1)

Valid2 == to_dict(Task2)

\* the malformed records, by kind
MissingKey(k) == [Valid1 EXCEPT !.keys = Keys \ {k}, !.val[k] = JNull]

WithValue(k, v) == [Valid1 EXCEPT !.val[k] = v]

NotAnObject == [obj |-> FALSE, keys |-> {}, val |-> [k \in Keys |-> JNull]]

\* records that from_dict answers with None
SkippedRecords ==
    { MissingKey("title"), MissingKey("created_at"),
      WithValue("title", JStr(" ")), WithValue("title", JNull),
      WithValue("due_date", JStr("tomorrow")),
      WithValue("created_at", JStr("today")) }

\* records with a field of the wrong type, and a record that is no object
WrongTypeRecords ==
    { WithValue("title", JNum(5)), WithValue("description", JNull),
      WithValue("priority", JNum(1)), WithValue("reminder_time", JNum(7)),
      WithValue("created_at", JNum(0)), NotAnObject }

MalformedRecords == SkippedRecords \cup WrongTypeRecords

\* q with x put before position i
InsertAt(q, i, x) == SubSeq(q, 1, i - 1) \o <<x>> \o SubSeq(q, i, Len(q))

\* the files of two valid records and a malformed one
TwoValidOneMalformed ==
    { ArrayFile(InsertAt(<<Valid1, Valid2>>, i, m)) :
        i \in 1..3, m \in MalformedRecords }

\* the files a process may find at its start
InitFiles ==
    { AbsentFile,
      [kind |-> "undecodable", recs |-> <<>>],
      [kind |-> "badjson", recs |-> <<>>],
      [kind |-> "scalar", recs |-> <<>>],
      ArrayFile(<<>>),
      ArrayFile(<<Valid1, Valid2>>) }
    \cup TwoValidOneMalformed

\* the index arguments of remove_task and toggle_task_completion
Indexes == (0 - 1) .. MaxTasks

----------------------------------------------------------------------------
(* The foreground thread: TaskManager's operations and main, lines 62-153  *)
(* and 216-307.                                                            *)

\* the guard without its lower bound
InRangeUpperOnly(index, ts) == index < Len(ts)

\* the guard of lines 104 and 115
InRange(index, ts) == 0 <= index /\ index < Len(ts)

\* a del that drops the last task whatever the index
DelItemLast(ts, index) ==
    IF Len(ts) = 0 THEN [st |-> "IndexError", tasks |-> ts]
    ELSE [st |-> "ok", tasks |-> SubSeq(ts, 1, Len(ts) - 1)]

\* del ts[index], Python's list.__delitem__: a negative index counts from
\* the end; [st, tasks], st = "IndexError" out of the list
DelItem(ts, index) ==
    LET pos == IF index < 0 THEN Len(ts) + index + 1 ELSE index + 1
    IN IF pos < 1 \/ pos > Len(ts) THEN [st |-> "IndexError", tasks |-> ts]
       ELSE [st |-> "ok",
             tasks |-> SubSeq(ts, 1, pos - 1) \o SubSeq(ts, pos + 1, Len(ts))]

\* an assignment that marks the task completed instead of flipping the flag
SetCompletedTrue(ts, index) ==
    LET pos == IF index < 0 THEN Len(ts) + index + 1 ELSE index + 1
    IN IF pos < 1 \/ pos > Len(ts) THEN [st |-> "IndexError", tasks |-> ts]
       ELSE [st |-> "ok", tasks |-> [ts EXCEPT ![pos].completed = JBool(TRUE)]]

\* ts[index].completed = not ts[index].completed, Python's list.__getitem__
SetCompleted(ts, index) ==
    LET pos == IF index < 0 THEN Len(ts) + index + 1 ELSE index + 1
    IN IF pos < 1 \/ pos > Len(ts) THEN [st |-> "IndexError", tasks |-> ts]
       ELSE [st |-> "ok",
             tasks |-> [ts EXCEPT ![pos].completed = JBool(~Truthy(@))]]

\* the tasks of old that new holds fewer times: those a call removed or
\* changed
Gone(old, new) ==
    {v \in Range(old) : Cardinality({k \in 1..Len(new) : new[k] = v})
                          < Cardinality({k \in 1..Len(old) : old[k] = v})}

\* what a call of the foreground thread leaves behind: the store, the file
\* and the record of the call
Call(op, index, r, w, newTasks, newFile) ==
    /\ tasks' = newTasks
    /\ file' = newFile
    /\ failures' = IF w \in {"openfail", "partial"} THEN failures + 1 ELSE failures
    /\ lastOp' = op
    /\ lastIdx' = index
    /\ ret' = r
    /\ lastWrite' = w
    /\ IF op = "toggle" /\ 0 <= index /\ index < Len(tasks)
       THEN /\ snapTasks' = tasks
            /\ snapFile' = file
            /\ IF r # "True" \/ streak = 3
               THEN /\ streak' = 3
                    /\ snap2Tasks' = <<>>
                    /\ snap2File' = AbsentFile
               ELSE IF streak >= 1 /\ lastIdx = index
               THEN /\ streak' = 2
                    /\ snap2Tasks' = snapTasks
                    /\ snap2File' = snapFile
               ELSE /\ streak' = 1
                    /\ snap2Tasks' = <<>>
                    /\ snap2File' = AbsentFile
       ELSE /\ streak' = 0
            /\ snapTasks' = IF op = "load" THEN tasks ELSE <<>>
            /\ snapFile' = IF op = "load" THEN file ELSE AbsentFile
            /\ snap2Tasks' = <<>>
            /\ snap2File' = AbsentFile
    /\ owed' = owed \ Gone(tasks, newTasks)

\* main, lines 216-231: TaskManager() loads the file, sets _running and the
\* reminder thread starts
Start ==
    /\ phase = "off"
    /\ \E w \in IF file.kind = "badjson" THEN WriteOutcomes ELSE {"none"} :
         LET l == load_tasks(<<>>, file, w, clock)
         IN Call("load", 0, "none", w, l.tasks, l.file)
    /\ phase' = "up"
    /\ running' = TRUE
    /\ pollerPc' = "loop"
    /\ UNCHANGED <<clock, scanIdx, pollNow, printed>>

\* Task(...) then TaskManager.add_task, lines 15-28 and 93-100, as choice 1
\* of main calls them (lines 238-244); a Task(...) that raises adds nothing
AddTask(a) ==
    /\ phase = "up"
    /\ Len(tasks) < MaxTasks
    /\ LET c == TaskInit(a[1], a[2], a[3], a[4], a[5], a[6], clock)
       IN IF c.st # "ok"
          THEN Call("add", 0, "raised", "none", tasks, file)
          ELSE \E w \in WriteOutcomes :
                 Call("add", 0, "True", w, Append(tasks, c.task),
                      save_tasks(Append(tasks, c.task), file, w))
    /\ UNCHANGED <<phase, running, clock, pollerPc, scanIdx, pollNow, printed>>

\* TaskManager.remove_task, lines 102-111
RemoveTask(index) ==
    /\ phase = "up"
    /\ LET d == DelItem(tasks, index)
       IN IF InRange(index, tasks) /\ d.st = "ok"
          THEN \E w \in WriteOutcomes :
                 Call("remove", index, "True", w, d.tasks,
                      save_tasks(d.tasks, file, w))
          ELSE Call("remove", index, "False", "none", tasks, file)
    /\ UNCHANGED <<phase, running, clock, pollerPc, scanIdx, pollNow, printed>>

\* TaskManager.toggle_task_completion, lines 113-122
ToggleTaskCompletion(index) ==
    /\ phase = "up"
    /\ LET d == SetCompleted(tasks, index)
       IN IF InRange(index, tasks) /\ d.st = "ok"
          THEN \E w \in WriteOutcomes :
                 Call("toggle", index, "True", w, d.tasks,
                      save_tasks(d.tasks, file, w))
          ELSE Call("toggle", index, "False", "none", tasks, file)
    /\ UNCHANGED <<phase, running, clock, pollerPc, scanIdx, pollNow, printed>>

\* TaskManager.get_tasks, lines 124-131
get_tasks(ts, show_completed) ==
    IF show_completed THEN ts
    ELSE SelectSeq(ts, LAMBDA t : ~Truthy(t.completed))

\* TaskManager.stop, lines 151-153, from choice 5 or a signal
Stop ==
    /\ phase = "up"
    /\ \E w \in WriteOutcomes :
         Call("stop", 0, "none", w, tasks, save_tasks(tasks, file, w))
    /\ phase' = "stopping"
    /\ running' = FALSE
    /\ UNCHANGED <<clock, pollerPc, scanIdx, pollNow, printed>>

\* the process ends after stop(): lines 214 and 300; the daemon thread of
\* line 230 ends with it
Exit ==
    /\ phase = "stopping"
    /\ phase' = "off"
    /\ Call("exit", 0, "none", "none", <<>>, file)
    /\ pollerPc' = "done"
    /\ scanIdx' = 0
    /\ pollNow' = 0
    /\ printed' = <<>>
    /\ UNCHANGED <<running, clock>>

\* time passes
Tick ==
    /\ clock < MaxTime
    /\ clock' = clock + 1
    /\ UNCHANGED <<phase, tasks, file, running, failures, callVars, pollerVars>>

----------------------------------------------------------------------------
(* The reminder thread: lines 133-149 and 225-228.                         *)

\* the condition of lines 140-142
ReminderDue(task, now) ==
    /\ task.reminder
    /\ task.reminder_time # <<>>
    /\ ~Truthy(task.completed)
    /\ task.reminder_time[1] <= now

\* a loop that does not read the flag
PollerLoopForever ==
    /\ pollerPc = "loop"
    /\ pollerPc' = "check"
    /\ UNCHANGED <<phase, tasks, file, running, clock, failures, callVars,
                   scanIdx, pollNow, printed, owed>>

\* line 226: the test of the while loop
PollerLoop ==
    /\ pollerPc = "loop"
    /\ pollerPc' = IF running THEN "check" ELSE "done"
    /\ UNCHANGED <<phase, tasks, file, running, clock, failures, callVars,
                   scanIdx, pollNow, printed, owed>>

\* lines 134-139: check_reminders returns when the manager is stopped, else
\* takes now and starts the iteration of the list
PollerCheck ==
    /\ pollerPc = "check"
    /\ IF ~running
       THEN /\ pollerPc' = "sleep"
            /\ UNCHANGED <<scanIdx, pollNow, printed, owed>>
       ELSE /\ pollerPc' = "scan"
            /\ scanIdx' = 0
            /\ pollNow' = clock
            /\ printed' = <<>>
            /\ owed' = {t \in Range(tasks) : ReminderDue(t, clock)}
    /\ UNCHANGED <<phase, tasks, file, running, clock, failures, callVars>>

\* lines 139-147: the list iterator yields the task at its position and the
\* reminder is printed when the condition holds
PollerVisit ==
    /\ pollerPc = "scan"
    /\ scanIdx < Len(tasks)
    /\ LET task == tasks[scanIdx + 1]
       IN IF ReminderDue(task, pollNow)
          THEN printed' = <<task>> /\ owed' = owed \ {task}
          ELSE printed' = <<>> /\ owed' = owed
    /\ scanIdx' = scanIdx + 1
    /\ UNCHANGED <<phase, tasks, file, running, clock, failures, callVars,
                   pollerPc, pollNow>>

\* line 139: the iterator is exhausted; check_reminders returns and line 228
\* sleeps
PollerScanEnd ==
    /\ pollerPc = "scan"
    /\ scanIdx >= Len(tasks)
    /\ pollerPc' = "sleep"
    /\ scanIdx' = 0
    /\ pollNow' = 0
    /\ printed' = <<>>
    /\ UNCHANGED <<phase, tasks, file, running, clock, failures, callVars, owed>>

\* line 228: the sleep ends
PollerWake ==
    /\ pollerPc = "sleep"
    /\ pollerPc' = "loop"
    /\ owed' = {}
    /\ UNCHANGED <<phase, tasks, file, running, clock, failures, callVars,
                   scanIdx, pollNow, printed>>

Poller == PollerLoop \/ PollerCheck \/ PollerVisit \/ PollerScanEnd \/ PollerWake

----------------------------------------------------------------------------
(* The specifications.                                                     *)

Init ==
    /\ phase = "off"
    /\ tasks = <<>>
    /\ file \in InitFiles
    /\ running = FALSE
    /\ clock = 0
    /\ failures = 0
    /\ lastOp = "none"
    /\ lastIdx = 0
    /\ ret = "none"
    /\ lastWrite = "none"
    /\ streak = 0
    /\ snapTasks = <<>>
    /\ snapFile = AbsentFile
    /\ snap2Tasks = <<>>
    /\ snap2File = AbsentFile
    /\ pollerPc = "off"
    /\ scanIdx = 0
    /\ pollNow = 0
    /\ printed = <<>>
    /\ owed = {}

\* the foreground thread of a process, from its start to its end, and the
\* next process after it; the reminder thread writes nothing the foreground
\* thread reads, and the calls read the clock for created_at only, so the
\* clock stands still here and runs in PollNext
Next ==
    \/ Start
    \/ \E a \in TaskArgs : AddTask(a)
    \/ \E i \in Indexes : RemoveTask(i)
    \/ \E i \in Indexes : ToggleTaskCompletion(i)
    \/ Stop
    \/ Exit

Spec == Init /\ [][Next]_vars

\* one process, started on an empty task file, with its reminder thread; the
\* thread reads neither the file nor the outcome of a write, and the writes
\* of this process succeed
PollInit ==
    /\ phase = "up"
    /\ tasks = <<>>
    /\ file = ArrayFile(<<>>)
    /\ running = TRUE
    /\ clock = 0
    /\ failures = MaxWriteFailures
    /\ lastOp = "load"
    /\ lastIdx = 0
    /\ ret = "none"
    /\ lastWrite = "none"
    /\ streak = 0
    /\ snapTasks = <<>>
    /\ snapFile = AbsentFile
    /\ snap2Tasks = <<>>
    /\ snap2File = AbsentFile
    /\ pollerPc = "loop"
    /\ scanIdx = 0
    /\ pollNow = 0
    /\ printed = <<>>
    /\ owed = {}

PollNext ==
    \/ \E a \in TaskArgs : AddTask(a)
    \/ \E i \in Indexes : RemoveTask(i)
    \/ \E i \in Indexes : ToggleTaskCompletion(i)
    \/ Stop
    \/ Exit
    \/ Tick
    \/ PollerLoop
    \/ PollerCheck
    \/ PollerVisit
    \/ PollerScanEnd
    \/ PollerWake

PollSpec == PollInit /\ [][PollNext]_vars

\* the same under a fair scheduling of the reminder thread: a thread that
\* can take a step takes it, and the sleep of line 228 ends
LiveSpec == PollInit /\ [][PollNext]_vars /\ WF_vars(Poller)

----------------------------------------------------------------------------
(* The claims.                                                             *)

\* C1: whenever add_task, remove_task or toggle_task_completion returns
\* True, the file holds the serialization of the tasks in memory, whatever
\* the outcome of the write.
C1_PersistedOnSuccess ==
    (lastOp \in {"add", "remove", "toggle"} /\ ret = "True")
        => file = ArrayFile(Serialize(tasks))

\* C2, as claimed: the load of a file that cannot be parsed leaves the store
\* empty and the file as it was.
C2_MalformedFileKept ==
    (lastOp = "load" /\ snapFile.kind \in {"badjson", "undecodable"})
        => (tasks = <<>> /\ file = snapFile)

\* C2, amended: the load of a file that is not valid JSON leaves the store
\* empty and writes the file anew: it holds the empty array when the write
\* succeeds, is unchanged when the file cannot be opened for writing and is
\* left truncated when the write fails after the open; a file whose bytes
\* cannot be decoded leaves the store empty and is not written.
C2_MalformedFileRewritten ==
    /\ (lastOp = "load" /\ snapFile.kind = "badjson")
          => /\ tasks = <<>>
             /\ lastWrite \in {"ok", "openfail", "partial"}
             /\ lastWrite = "ok" => file = ArrayFile(<<>>)
             /\ lastWrite = "openfail" => file = snapFile
             /\ lastWrite = "partial" => file.kind = "badjson"
    /\ (lastOp = "load" /\ snapFile.kind = "undecodable")
          => (tasks = <<>> /\ lastWrite = "none" /\ file = snapFile)

\* a load has replaced a file of invalid JSON by the empty array
C2_Witness ==
    /\ lastOp = "load"
    /\ snapFile.kind = "badjson"
    /\ lastWrite = "ok"
    /\ file = ArrayFile(<<>>)
    /\ tasks = <<>>

\* C3: the load of a file of two valid records and one malformed record, of
\* any kind, yields the two valid tasks in the order of the file.
C3_MalformedRecordSkipped ==
    (lastOp = "load" /\ snapFile \in TwoValidOneMalformed)
        => tasks = <<Task1, Task2>>

\* C4: after add_task has returned True, a load of the file at a later
\* instant yields, at the position of the added task, a task equal to it in
\* every field.
C4_RoundTrip ==
    (lastOp = "add" /\ ret = "True")
        => LET loaded == load_tasks(<<>>, file, "ok", clock + 1).tasks
           IN /\ Len(loaded) >= Len(tasks)
              /\ loaded[Len(tasks)] = tasks[Len(tasks)]

C6_OutOfRangeNoOp ==
    [][\A i \in Indexes :
         ((RemoveTask(i) \/ ToggleTaskCompletion(i))
              /\ ~(0 <= i /\ i < Len(tasks)))
            => (ret' = "False" /\ tasks' = tasks /\ file' = file)]_vars

\* remove_task(-1) has returned False on a store that holds a task
C6_Witness ==
    /\ lastOp = "remove"
    /\ lastIdx = 0 - 1
    /\ ret = "False"
    /\ Len(tasks) >= 1

\* C7: a poll prints the reminder of a task only if its reminder is set and
\* due at the now of the poll and it is not completed, and when the poll has
\* ended it has printed the reminder of every such task that was in the store
\* for the whole poll.
C7_NotifiedIffDue ==
    /\ printed # <<>> => ReminderDue(printed[1], pollNow)
    /\ pollerPc = "sleep" => owed = {}

\* C8: once stop() has cleared the flag, the reminder thread ends, it starts
\* no poll any more, and the flag stays cleared.
C8_CooperativeShutdown ==
    /\ (~running) ~> (pollerPc = "done")
    /\ [][(~running /\ pollerPc # "scan") => pollerPc' # "scan"]_vars
    /\ [][(~running) => ~running']_vars

\* the thread has left its loop on the cleared flag, the process still there
C8_Witness ==
    /\ phase = "stopping"
    /\ ~running
    /\ pollerPc = "done"

\* C9, as claimed, where no write has failed: two successive toggles of an
\* index in range return True and leave the tasks and the file as they were
\* before the two calls.
C9_ToggleTwiceRestoresFile ==
    /\ streak # 3
    /\ (streak = 2 /\ failures = 0) => (tasks = snap2Tasks /\ file = snap2File)

\* C9, amended: two successive toggles of an index in range return True and
\* leave the tasks as they were before the two calls; the file holds the
\* serialization of these tasks when the write of the second call succeeds,
\* and need not be what it was before the calls.
C9_ToggleTwice ==
    /\ streak # 3
    /\ streak = 2
          => /\ ret = "True"
             /\ tasks = snap2Tasks
             /\ lastWrite = "ok" => file = ArrayFile(Serialize(snap2Tasks))
             /\ lastWrite = "openfail" => file = snapFile

\* two toggles have brought a task back to its state and the file was
\* written twice
C9_Witness ==
    /\ streak = 2
    /\ lastOp = "toggle"
    /\ lastWrite = "ok"
    /\ Len(tasks) >= 2
    /\ tasks = snap2Tasks
    /\ tasks # snapTasks

\* C10: whatever the calls of the foreground thread during a scan, a task
\* that stayed in the store, reminder due and not completed, is owed its
\* reminder only while the scan is under way: no scan ends without it.
C10_NoSkip ==
    \A t \in owed : pollerPc = "scan"

====
